---- MODULE Spec2Model ----
(***************************************************************************)
(* Model of temperature.py: the ECA&D fixed-column parser, the linear-scan *)
(* statistics over parallel (dates, temperatures) lists, and the           *)
(* module-level report driver.                                             *)
(*                                                                         *)
(* Representation.  A Python str is a sequence of one-character strings.   *)
(* A temperature float is int(field) / 10; it is kept as the integer       *)
(* number of tenths of a degree (the quotient has one decimal digit, so    *)
(* every comparison between two such floats, or with 0, 25 and 30, agrees  *)
(* with the comparison of the tenths).  A Python exception is a value      *)
(* [exc |-> <type name>, val |-> ...]; a normal return has exc = "none".   *)
(***************************************************************************)
EXTENDS Integers, Sequences, FiniteSets, TLC

\* ------------------------------------------------------------------ bounds
MaxLen == 4          \* longest (dates, temperatures) series given to a function
MaxLines == 4        \* longest text file given to read_data
MaxDriverLines == 3  \* longest text file given to the report driver

\* ------------------------------------------------- Python str primitives
Min(a, b) == IF a < b THEN a ELSE b

\* s[a:b] with 0 <= a <= b: both ends are clamped to len(s), never an error.
Slice(s, a, b) == SubSeq(s, Min(a, Len(s)) + 1, Min(b, Len(s)))

Whitespace == {" ", "\t", "\n", "\r"}

Digits == <<"0", "1", "2", "3", "4", "5", "6", "7", "8", "9">>

IsDigit(c) == \E k \in 1..10 : Digits[k] = c

DigitVal(c) == (CHOOSE k \in 1..10 : Digits[k] = c) - 1

\* Code points of the characters that occur in the modelled files.
CharCode(c) ==
    IF IsDigit(c) THEN 48 + DigitVal(c)
    ELSE CASE c = "\t" -> 9
           [] c = "\n" -> 10
           [] c = "\r" -> 13
           [] c = " " -> 32
           [] c = "+" -> 43
           [] c = "," -> 44
           [] c = "-" -> 45
           [] c = "A" -> 65
           [] c = "C" -> 67
           [] c = "D" -> 68
           [] c = "E" -> 69
           [] c = "I" -> 73
           [] c = "O" -> 79
           [] c = "Q" -> 81
           [] c = "S" -> 83
           [] c = "T" -> 84
           [] c = "U" -> 85
           [] c = "X" -> 88
           [] c = "_" -> 95
           [] OTHER -> 127

\* str.rstrip('\n')
RECURSIVE rstrip_nl(_)
rstrip_nl(s) ==
    IF s # <<>> /\ s[Len(s)] = "\n" THEN rstrip_nl(SubSeq(s, 1, Len(s) - 1))
    ELSE s

RECURSIVE rstrip(_)
rstrip(s) ==
    IF s # <<>> /\ s[Len(s)] \in Whitespace THEN rstrip(SubSeq(s, 1, Len(s) - 1))
    ELSE s

RECURSIVE lstrip(_)
lstrip(s) ==
    IF s # <<>> /\ s[1] \in Whitespace THEN lstrip(Tail(s))
    ELSE s

\* str.strip()
strip(s) == lstrip(rstrip(s))

\* str.startswith(prefix)
startswith(s, prefix) ==
    Len(s) >= Len(prefix) /\ SubSeq(s, 1, Len(prefix)) = prefix

\* value of a non-empty run of decimal digits
RECURSIVE DigitsValue(_)
DigitsValue(s) ==
    IF s = <<>> THEN 0
    ELSE 10 * DigitsValue(SubSeq(s, 1, Len(s) - 1)) + DigitVal(s[Len(s)])

AllDigits(s) == s # <<>> /\ \A k \in 1..Len(s) : IsDigit(s[k])

\* int(str): surrounding whitespace is ignored, then an optional sign and
\* at least one digit; anything else raises ValueError.
int(s) ==
    LET t == strip(s)
        signed == t # <<>> /\ t[1] \in {"+", "-"}
        body == IF signed THEN Tail(t) ELSE t
    IN  IF AllDigits(body)
        THEN [exc |-> "none",
              val |-> IF signed /\ t[1] = "-" THEN 0 - DigitsValue(body)
                      ELSE DigitsValue(body)]
        ELSE [exc |-> "ValueError", val |-> t]

\* str < str: lexicographic by code point, a proper prefix is smaller.
RECURSIVE StrLess(_, _)
StrLess(a, b) ==
    IF b = <<>> THEN FALSE
    ELSE IF a = <<>> THEN TRUE
    ELSE IF a[1] # b[1] THEN CharCode(a[1]) < CharCode(b[1])
    ELSE StrLess(Tail(a), Tail(b))

\* ------------------------------------------------------------- read_data
STAID == <<"S", "T", "A", "I", "D">>

\* One pass of the body of `for line in lines`.  st is the loop state
\* [data_line, list_of_dates, list_of_temperatures, exc]; once an exception
\* was raised the loop is left and the state no longer changes.
read_data_mut_step(st, raw) ==
    LET line == rstrip_nl(raw)
        parsed == int(strip(Slice(line, 23, 28)))
    IN  IF st.exc # "none" THEN st
        ELSE IF st.data_line = FALSE /\ ~startswith(strip(line), STAID) THEN st
        ELSE IF parsed.exc # "none"
        THEN [st EXCEPT !.data_line = TRUE,
                        !.list_of_dates = Append(@, Slice(line, 14, 22)),
                        !.exc = parsed.exc]
        ELSE [st EXCEPT !.data_line = TRUE,
                        !.list_of_dates = Append(@, Slice(line, 14, 22)),
                        !.list_of_temperatures = Append(@, parsed.val)]

read_data_step(st, raw) ==
    LET line == rstrip_nl(raw)
        parsed == int(strip(Slice(line, 23, 28)))
    IN  IF st.exc # "none" THEN st
        ELSE IF st.data_line = FALSE
        THEN IF startswith(strip(line), STAID)
             THEN [st EXCEPT !.data_line = TRUE]
             ELSE st
        ELSE IF parsed.exc # "none"
        THEN [st EXCEPT !.list_of_dates = Append(@, Slice(line, 14, 22)),
                        !.exc = parsed.exc]
        ELSE [st EXCEPT !.list_of_dates = Append(@, Slice(line, 14, 22)),
                        !.list_of_temperatures = Append(@, parsed.val)]

RECURSIVE read_data_loop(_, _)
read_data_loop(st, lines) ==
    IF lines = <<>> THEN st
    ELSE read_data_loop(read_data_step(st, Head(lines)), Tail(lines))

\* read_data(filename), with the file's lines (as read_textfile returns
\* them) in place of the file name.  A normal return carries the pair
\* (list_of_dates, list_of_temperatures); an exception carries nothing.
read_data(lines) ==
    LET st == read_data_loop([data_line |-> FALSE, list_of_dates |-> <<>>,
                              list_of_temperatures |-> <<>>, exc |-> "none"],
                             lines)
    IN  IF st.exc = "none"
        THEN [exc |-> "none", val |-> <<st.list_of_dates, st.list_of_temperatures>>]
        ELSE [exc |-> st.exc, val |-> <<>>]

\* ------------------------------------------------- Python list primitives
\* list[i] for a 0-based i >= 0: IndexError past the end.
InRange(list, i) == i >= 0 /\ i < Len(list)

\* list[i] for any int i: a negative i counts from the end.
PyIndex(list, i) == IF i < 0 THEN i + Len(list) ELSE i

Raise(e) == [exc |-> e, val |-> <<>>]

Return(v) == [exc |-> "none", val |-> v]

\* --------------------------------------------------- get_highest_temp
\* Body of the for loop: acc is (highest_temp_date, highest_temp).
highest_mut_step(acc, date, temp) ==
    IF temp >= acc[2] THEN <<date, temp>> ELSE acc

highest_step(acc, date, temp) ==
    IF temp > acc[2] THEN <<date, temp>> ELSE acc

\* The for loop from 0-based index i on.  Every caller passes lists of
\* equal length, so list_of_dates[i] exists whenever list_of_temperatures[i] does.
RECURSIVE highest_loop(_, _, _, _)
highest_loop(acc, i, list_of_dates, list_of_temperatures) ==
    IF i >= Len(list_of_temperatures) THEN Return(acc)
    ELSE highest_loop(highest_step(acc, list_of_dates[i + 1],
                                   list_of_temperatures[i + 1]),
                      i + 1, list_of_dates, list_of_temperatures)

get_highest_temp(list_of_dates, list_of_temperatures) ==
    IF ~InRange(list_of_temperatures, 0) \/ ~InRange(list_of_dates, 0)
    THEN Raise("IndexError")
    ELSE highest_loop(<<list_of_dates[1], list_of_temperatures[1]>>, 0,
                      list_of_dates, list_of_temperatures)

\* ---------------------------------------------------- get_lowest_temp
lowest_mut_step(acc, date, temp) ==
    IF temp <= acc[2] THEN <<date, temp>> ELSE acc

lowest_step(acc, date, temp) ==
    IF temp < acc[2] THEN <<date, temp>> ELSE acc

RECURSIVE lowest_loop(_, _, _, _)
lowest_loop(acc, i, list_of_dates, list_of_temperatures) ==
    IF i >= Len(list_of_temperatures) THEN Return(acc)
    ELSE lowest_loop(lowest_step(acc, list_of_dates[i + 1],
                                 list_of_temperatures[i + 1]),
                     i + 1, list_of_dates, list_of_temperatures)

get_lowest_temp(list_of_dates, list_of_temperatures) ==
    IF ~InRange(list_of_temperatures, 0) \/ ~InRange(list_of_dates, 0)
    THEN Raise("IndexError")
    ELSE lowest_loop(<<list_of_dates[1], list_of_temperatures[1]>>, 0,
                     list_of_dates, list_of_temperatures)

\* ----------------------------------------------- get_longest_freezing
\* Body of the for loop at 0-based index i; st holds the four locals.
\* max_dates[i-1] is only read while was_freezing, so i >= 1 there.
freezing_mut_step(st, i, max_dates, max_temps) ==
    IF max_temps[i + 1] < 0
    THEN IF st.was_freezing
         THEN [st EXCEPT !.uninterrupted_period = @ + 1]
         ELSE [st EXCEPT !.was_freezing = TRUE, !.uninterrupted_period = 1]
    ELSE IF st.was_freezing
    THEN IF st.uninterrupted_period >= st.longest_uninterrupted_period
         THEN [st EXCEPT !.longest_uninterrupted_period = st.uninterrupted_period,
                         !.last_day = max_dates[PyIndex(max_dates, i - 1) + 1],
                         !.was_freezing = FALSE]
         ELSE [st EXCEPT !.was_freezing = FALSE]
    ELSE st

freezing_step(st, i, max_dates, max_temps) ==
    IF max_temps[i + 1] < 0
    THEN IF st.was_freezing
         THEN [st EXCEPT !.uninterrupted_period = @ + 1]
         ELSE [st EXCEPT !.was_freezing = TRUE, !.uninterrupted_period = 1]
    ELSE IF st.was_freezing
    THEN IF st.uninterrupted_period > st.longest_uninterrupted_period
         THEN [st EXCEPT !.longest_uninterrupted_period = st.uninterrupted_period,
                         !.last_day = max_dates[PyIndex(max_dates, i - 1) + 1],
                         !.was_freezing = FALSE]
         ELSE [st EXCEPT !.was_freezing = FALSE]
    ELSE st

RECURSIVE freezing_loop(_, _, _, _)
freezing_loop(st, i, max_dates, max_temps) ==
    IF i >= Len(max_dates) THEN st
    ELSE freezing_loop(freezing_step(st, i, max_dates, max_temps),
                       i + 1, max_dates, max_temps)

\* What the function would return if a run still open after the last
\* record were closed there.
freezing_mut_result(st, max_dates) ==
    IF st.was_freezing /\ st.uninterrupted_period > st.longest_uninterrupted_period
    THEN <<st.uninterrupted_period, max_dates[Len(max_dates)]>>
    ELSE <<st.longest_uninterrupted_period, st.last_day>>

\* return (longest_uninterrupted_period, last_day)
freezing_result(st, max_dates) ==
    <<st.longest_uninterrupted_period, st.last_day>>

get_longest_freezing(max_dates, max_temps) ==
    Return(freezing_result(
        freezing_loop([uninterrupted_period |-> 0,
                       longest_uninterrupted_period |-> 0,
                       last_day |-> <<>>,
                       was_freezing |-> FALSE],
                      0, max_dates, max_temps),
        max_dates))

\* --------------------------------------------------- get_unique_years
Contains(list, x) == \E k \in 1..Len(list) : list[k] = x

\* list.sort() on a list of str: ascending by StrLess, stable.
RECURSIVE InsertSorted(_, _)
InsertSorted(sorted, x) ==
    IF sorted = <<>> THEN <<x>>
    ELSE IF StrLess(x, Head(sorted)) THEN <<x>> \o sorted
    ELSE <<Head(sorted)>> \o InsertSorted(Tail(sorted), x)

RECURSIVE sort(_)
sort(list) ==
    IF list = <<>> THEN <<>>
    ELSE InsertSorted(sort(SubSeq(list, 1, Len(list) - 1)), list[Len(list)])

\* Body of `for date in list_of_dates`.
years_mut_step(years, date) ==
    LET year == Slice(date, 0, 4)
    IN  IF ~Contains(years, year) THEN Append(years, year) ELSE years

years_step(years, date) ==
    LET year == Slice(date, 0, 4)
    IN  IF ~Contains(years, year) THEN sort(Append(years, year)) ELSE years

RECURSIVE years_loop(_, _)
years_loop(years, list_of_dates) ==
    IF list_of_dates = <<>> THEN years
    ELSE years_loop(years_step(years, Head(list_of_dates)), Tail(list_of_dates))

get_unique_years(list_of_dates) == Return(years_loop(<<>>, list_of_dates))

\* ------------------------------------------- get_days_higher_per_year
\* A dict is [keys |-> its keys in insertion order, val |-> key -> value].
SeqToSet(list) == {list[k] : k \in 1..Len(list)}

\* years_dict after the pre-population loop.
ZeroDict(years) == [keys |-> years, val |-> [y \in SeqToSet(years) |-> 0]]

\* list_of_temperatures[i] >= min_temp, min_temp in whole degrees.
MeetsThreshold(temp, min_temp) == temp >= 10 * min_temp

days_mut_step(d, date, temp, min_temp) ==
    LET year == Slice(date, 0, 4)
    IN  IF temp > 10 * min_temp THEN [d EXCEPT !.val[year] = @ + 1] ELSE d

\* Body of `for i in range(len(list_of_temperatures))`.  The year of a date
\* of list_of_dates is always a key: the dict was filled from that list.
days_step(d, date, temp, min_temp) ==
    LET year == Slice(date, 0, 4)
    IN  IF MeetsThreshold(temp, min_temp) THEN [d EXCEPT !.val[year] = @ + 1] ELSE d

RECURSIVE days_loop(_, _, _, _, _)
days_loop(d, i, list_of_dates, list_of_temperatures, min_temp) ==
    IF i >= Len(list_of_temperatures) THEN d
    ELSE days_loop(days_step(d, list_of_dates[i + 1],
                             list_of_temperatures[i + 1], min_temp),
                   i + 1, list_of_dates, list_of_temperatures, min_temp)

get_days_higher_per_year(list_of_dates, list_of_temperatures, min_temp) ==
    Return(days_loop(ZeroDict(get_unique_years(list_of_dates).val), 0,
                     list_of_dates, list_of_temperatures, min_temp))

get_summer_days_per_year(list_of_dates, list_of_temperatures) ==
    get_days_higher_per_year(list_of_dates, list_of_temperatures, 25)

get_tropical_days_per_year(list_of_dates, list_of_temperatures) ==
    get_days_higher_per_year(list_of_dates, list_of_temperatures, 30)

\* -------------------------------------------------- get_friendly_date
MonthNames == <<"January", "February", "March", "April", "May", "June", "July",
                "August", "September", "October", "November", "December">>

IsLeap(year) == year % 4 = 0 /\ (year % 100 # 0 \/ year % 400 = 0)

DaysInMonth(year, month) ==
    IF month = 2 THEN (IF IsLeap(year) THEN 29 ELSE 28)
    ELSE IF month \in {4, 6, 9, 11} THEN 30 ELSE 31

\* datetime(year, month, day) accepts exactly the dates of the calendar.
ValidDate(year, month, day) ==
    /\ year >= 1 /\ year <= 9999
    /\ month >= 1 /\ month <= 12
    /\ day >= 1 /\ day <= DaysInMonth(year, month)

\* The friendly date "<day> <Month> <year>" is kept as its three fields.
get_friendly_date(date) ==
    LET y == int(Slice(date, 0, 4))
        m == int(Slice(date, 4, 6))
        d == int(Slice(date, 6, 8))
    IN  IF y.exc # "none" \/ m.exc # "none" \/ d.exc # "none"
        THEN Raise("ValueError")
        ELSE IF ~ValidDate(y.val, m.val, d.val) THEN Raise("ValueError")
        ELSE Return(<<d.val, MonthNames[m.val], y.val>>)

\* ------------------------------------------------------------ the inputs
\* Sequences over S of length at most n.
SeqsUpTo(S, n) == UNION {[1..k -> S] : k \in 0..n}

Date19010107 == <<"1", "9", "0", "1", "0", "1", "0", "7">>

Date19010108 == <<"1", "9", "0", "1", "0", "1", "0", "8">>

Date20000109 == <<"2", "0", "0", "0", "0", "1", "0", "9">>

\* Dates of a series: two days of one year and a day of another; a list
\* may hold them in any order and any number of times.
DateSet == {Date20000109, Date19010107, Date19010108}

\* Temperatures in tenths: a freezing day, a summer day that is exactly
\* 25.0, a tropical day that is exactly 30.0.
TempSet == {-6, 250, 300}

ThresholdSet == {0, 25, 30}

\* Columns 0-13 of a record: STAID and SOUID.
StaidSouid == <<" ", " ", " ", "1", "6", "2", ",",
                "1", "0", "0", "5", "2", "2", ",">>

\* Columns 28- of a record: the quality code and the line break.
QualityTail == <<",", " ", " ", " ", " ", "0", "\n">>

\* A record line in the ECA&D layout: date at 14-21, temperature at 23-27.
DataLine(date, field) == StaidSouid \o date \o <<",">> \o field \o QualityTail

HeaderLine ==
    <<"S", "T", "A", "I", "D", ",", " ", "S", "O", "U", "I", "D", ",",
      " ", " ", " ", " ", "D", "A", "T", "E", ",",
      " ", " ", " ", "T", "X", ",", " ", "Q", "_", "T", "X", "\n">>

IndentedHeaderLine == <<" ", " ">> \o HeaderLine

PreambleLine == <<"E", "C", "A", " ", "D", "A", "T", "A", "\n">>

BlankLine == <<"\n">>

LineFreezing == DataLine(Date19010107, <<" ", " ", "-", "6", "6">>)

LineSummer == DataLine(Date19010108, <<" ", " ", "2", "5", "0">>)

LineMild == DataLine(Date20000109, <<" ", " ", " ", "4", "2">>)

\* LineFreezing cut after 27 characters: the temperature field reads "  -6".
LineCut27 == SubSeq(LineFreezing, 1, 27)

\* LineFreezing cut after the date: no temperature field at all.
LineCut22 == SubSeq(LineFreezing, 1, 22) \o <<"\n">>

LineSet == {PreambleLine, BlankLine, HeaderLine, IndentedHeaderLine,
            LineFreezing, LineSummer, LineCut27, LineCut22}

DriverLineSet == {HeaderLine, LineFreezing, LineSummer, LineMild}

\* ------------------------------------------------------------- the state
VARIABLES
    in_lines,     \* function harness: the lines of the file given to read_data
    in_dates,     \* function harness: argument list_of_dates / max_dates
    in_temps,     \* function harness: argument list_of_temperatures / max_temps
    in_min_temp,  \* function harness: argument min_temp
    called,       \* function harness: the function that was called
    ret,          \* function harness: what the call returned or raised
    files,        \* driver: lines of DeBiltTempMaxOLD.txt and DeBiltTempMinOLD.txt
    pc,           \* driver: the statement to run next
    g,            \* driver: the module's global names
    stdout,       \* driver: the lines printed so far
    exc           \* driver: the uncaught exception that ended the run

vars == <<in_lines, in_dates, in_temps, in_min_temp, called, ret,
          files, pc, g, stdout, exc>>

harness == <<in_lines, in_dates, in_temps, in_min_temp, called, ret>>

driver == <<files, pc, g, stdout, exc>>

\* A name that is not bound yet.
Unbound == <<>>

Globals0 ==
    [max_dates |-> Unbound, max_temps |-> Unbound,
     min_dates |-> Unbound, min_temps |-> Unbound,
     highest_temp_date |-> Unbound, highest_temp |-> Unbound,
     highest_temp_friendly_date |-> Unbound,
     lowest_temp_date |-> Unbound, lowest_temp |-> Unbound,
     lowest_temp_friendly_date |-> Unbound,
     uninterrupted_period |-> Unbound, last_day |-> Unbound,
     friendly_last_day |-> Unbound,
     summer_days |-> Unbound, tropical_days |-> Unbound,
     summer_list |-> Unbound, tropical_list |-> Unbound,
     summer_list_excl_tropical |-> Unbound,
     unique_years |-> Unbound, plotdata |-> Unbound]

HarnessIdle ==
    /\ in_lines = <<>> /\ in_dates = <<>> /\ in_temps = <<>> /\ in_min_temp = 0
    /\ called = "none" /\ ret = Return(<<>>)

DriverIdle ==
    /\ files = [max |-> <<>>, min |-> <<>>]
    /\ pc = "idle" /\ g = Globals0 /\ stdout = <<>> /\ exc = "none"

\* ------------------------------------------- read_data on one text file
InitRead ==
    /\ in_lines \in SeqsUpTo(LineSet, MaxLines)
    /\ in_dates = <<>> /\ in_temps = <<>> /\ in_min_temp = 0
    /\ called = "none" /\ ret = Return(<<>>)
    /\ DriverIdle

Call_read_data ==
    /\ called = "none"
    /\ called' = "read_data"
    /\ ret' = read_data(in_lines)
    /\ UNCHANGED <<in_lines, in_dates, in_temps, in_min_temp, driver>>

NextRead == Call_read_data

SpecRead == InitRead /\ [][NextRead]_vars

\* ------------------------------- the statistics on one parallel series
\* The series is drawn as a list of (date, temperature) records, so the
\* two lists handed to the functions always have equal length.
InitStats ==
    /\ \E series \in SeqsUpTo(DateSet \X TempSet, MaxLen) :
          /\ in_dates = [k \in 1..Len(series) |-> series[k][1]]
          /\ in_temps = [k \in 1..Len(series) |-> series[k][2]]
    /\ in_lines = <<>> /\ in_min_temp = 0
    /\ called = "none" /\ ret = Return(<<>>)
    /\ DriverIdle

Call_get_highest_temp ==
    /\ called = "none"
    /\ called' = "get_highest_temp"
    /\ ret' = get_highest_temp(in_dates, in_temps)
    /\ UNCHANGED <<in_lines, in_dates, in_temps, in_min_temp, driver>>

Call_get_lowest_temp ==
    /\ called = "none"
    /\ called' = "get_lowest_temp"
    /\ ret' = get_lowest_temp(in_dates, in_temps)
    /\ UNCHANGED <<in_lines, in_dates, in_temps, in_min_temp, driver>>

Call_get_longest_freezing ==
    /\ called = "none"
    /\ called' = "get_longest_freezing"
    /\ ret' = get_longest_freezing(in_dates, in_temps)
    /\ UNCHANGED <<in_lines, in_dates, in_temps, in_min_temp, driver>>

Call_get_unique_years ==
    /\ called = "none"
    /\ called' = "get_unique_years"
    /\ ret' = get_unique_years(in_dates)
    /\ UNCHANGED <<in_lines, in_dates, in_temps, in_min_temp, driver>>

Call_get_days_higher_per_year ==
    /\ called = "none"
    /\ \E min_temp \in ThresholdSet :
          /\ in_min_temp' = min_temp
          /\ ret' = get_days_higher_per_year(in_dates, in_temps, min_temp)
    /\ called' = "get_days_higher_per_year"
    /\ UNCHANGED <<in_lines, in_dates, in_temps, driver>>

Call_get_summer_days_per_year ==
    /\ called = "none"
    /\ called' = "get_summer_days_per_year"
    /\ ret' = get_summer_days_per_year(in_dates, in_temps)
    /\ UNCHANGED <<in_lines, in_dates, in_temps, in_min_temp, driver>>

Call_get_tropical_days_per_year ==
    /\ called = "none"
    /\ called' = "get_tropical_days_per_year"
    /\ ret' = get_tropical_days_per_year(in_dates, in_temps)
    /\ UNCHANGED <<in_lines, in_dates, in_temps, in_min_temp, driver>>

NextStats ==
    \/ Call_get_highest_temp
    \/ Call_get_lowest_temp
    \/ Call_get_longest_freezing
    \/ Call_get_unique_years
    \/ Call_get_days_higher_per_year
    \/ Call_get_summer_days_per_year
    \/ Call_get_tropical_days_per_year

SpecStats == InitStats /\ [][NextStats]_vars

\* ------------------------------------------------------ the report driver
\* A statement that binds names to the result r of a call: an exception
\* ends the run at this statement, a normal return goes on to `next`.
Bind1(r, next, name) ==
    IF r.exc # "none"
    THEN /\ exc' = r.exc
         /\ UNCHANGED <<pc, g>>
    ELSE /\ g' = [g EXCEPT ![name] = r.val]
         /\ pc' = next
         /\ UNCHANGED exc

Bind2(r, next, name1, name2) ==
    IF r.exc # "none"
    THEN /\ exc' = r.exc
         /\ UNCHANGED <<pc, g>>
    ELSE /\ g' = [g EXCEPT ![name1] = r.val[1], ![name2] = r.val[2]]
         /\ pc' = next
         /\ UNCHANGED exc

At(label) == pc = label /\ exc = "none"

InitDriver ==
    /\ files \in [max : SeqsUpTo(DriverLineSet, MaxDriverLines),
                  min : SeqsUpTo(DriverLineSet, MaxDriverLines)]
    /\ pc = "read_max" /\ g = Globals0 /\ stdout = <<>> /\ exc = "none"
    /\ HarnessIdle

\* max_dates, max_temps = read_data('DeBiltTempMaxOLD.txt')
ReadMax ==
    /\ At("read_max")
    /\ Bind2(read_data(files.max), "read_min", "max_dates", "max_temps")
    /\ UNCHANGED <<files, stdout, harness>>

\* min_dates, min_temps = read_data('DeBiltTempMinOLD.txt')
ReadMin ==
    /\ At("read_min")
    /\ Bind2(read_data(files.min), "highest", "min_dates", "min_temps")
    /\ UNCHANGED <<files, stdout, harness>>

HighestTemp ==
    /\ At("highest")
    /\ Bind2(get_highest_temp(g.max_dates, g.max_temps), "highest_friendly",
             "highest_temp_date", "highest_temp")
    /\ UNCHANGED <<files, stdout, harness>>

HighestFriendly ==
    /\ At("highest_friendly")
    /\ Bind1(get_friendly_date(g.highest_temp_date), "lowest",
             "highest_temp_friendly_date")
    /\ UNCHANGED <<files, stdout, harness>>

LowestTemp ==
    /\ At("lowest")
    /\ Bind2(get_lowest_temp(g.min_dates, g.min_temps), "lowest_friendly",
             "lowest_temp_date", "lowest_temp")
    /\ UNCHANGED <<files, stdout, harness>>

LowestFriendly ==
    /\ At("lowest_friendly")
    /\ Bind1(get_friendly_date(g.lowest_temp_date), "print_highest",
             "lowest_temp_friendly_date")
    /\ UNCHANGED <<files, stdout, harness>>

PrintHighest ==
    /\ At("print_highest")
    /\ stdout' = Append(stdout, <<"highest", g.highest_temp,
                                  g.highest_temp_friendly_date>>)
    /\ pc' = "print_lowest"
    /\ UNCHANGED <<files, g, exc, harness>>

PrintLowest ==
    /\ At("print_lowest")
    /\ stdout' = Append(stdout, <<"lowest", g.lowest_temp,
                                  g.lowest_temp_friendly_date>>)
    /\ pc' = "freezing"
    /\ UNCHANGED <<files, g, exc, harness>>

LongestFreezing ==
    /\ At("freezing")
    /\ Bind2(get_longest_freezing(g.max_dates, g.max_temps), "friendly_last_day",
             "uninterrupted_period", "last_day")
    /\ UNCHANGED <<files, stdout, harness>>

FriendlyLastDay ==
    /\ At("friendly_last_day")
    /\ Bind1(get_friendly_date(g.last_day), "print_freezing", "friendly_last_day")
    /\ UNCHANGED <<files, stdout, harness>>

PrintFreezing ==
    /\ At("print_freezing")
    /\ stdout' = Append(stdout, <<"freezing", g.uninterrupted_period,
                                  g.friendly_last_day>>)
    /\ pc' = "summer"
    /\ UNCHANGED <<files, g, exc, harness>>

SummerDays ==
    /\ At("summer")
    /\ Bind1(get_summer_days_per_year(g.max_dates, g.max_temps), "tropical",
             "summer_days")
    /\ UNCHANGED <<files, stdout, harness>>

TropicalDays ==
    /\ At("tropical")
    /\ Bind1(get_tropical_days_per_year(g.max_dates, g.max_temps), "lists",
             "tropical_days")
    /\ UNCHANGED <<files, stdout, harness>>

\* `for key in d: list.append(d[key])`: the values in insertion order.
DictValues(d) == [k \in 1..Len(d.keys) |-> d.val[d.keys[k]]]

BuildLists ==
    /\ At("lists")
    /\ g' = [g EXCEPT !.summer_list = DictValues(g.summer_days),
                      !.tropical_list = DictValues(g.tropical_days)]
    /\ pc' = "subtract"
    /\ UNCHANGED <<files, stdout, exc, harness>>

\* for i in summer_list:
\*     summer_list_excl_tropical.append(summer_list[i] - tropical_list[i])
\* The loop variable i is an element of summer_list (a count of days) and
\* is used as a 0-based index into both lists.
RECURSIVE subtract_loop(_, _, _, _)
subtract_loop(acc, k, summer_list, tropical_list) ==
    IF k > Len(summer_list) THEN Return(acc)
    ELSE LET i == summer_list[k]
         IN  IF ~InRange(summer_list, PyIndex(summer_list, i))
                \/ ~InRange(tropical_list, PyIndex(tropical_list, i))
             THEN Raise("IndexError")
             ELSE subtract_loop(
                      Append(acc, summer_list[PyIndex(summer_list, i) + 1]
                                  - tropical_list[PyIndex(tropical_list, i) + 1]),
                      k + 1, summer_list, tropical_list)

Subtract ==
    /\ At("subtract")
    /\ Bind1(subtract_loop(<<>>, 1, g.summer_list, g.tropical_list),
             "unique_years", "summer_list_excl_tropical")
    /\ UNCHANGED <<files, stdout, harness>>

UniqueYears ==
    /\ At("unique_years")
    /\ Bind1(get_unique_years(g.max_dates), "plot", "unique_years")
    /\ UNCHANGED <<files, stdout, harness>>

\* pd.DataFrame({...}, index=unique_years): every column must be as long
\* as the index.
DataFrame(summer, tropical, index) ==
    IF Len(summer) # Len(index) \/ Len(tropical) # Len(index)
    THEN Raise("ValueError")
    ELSE Return([Summer |-> summer, Tropical |-> tropical, index |-> index])

Plot ==
    /\ At("plot")
    /\ Bind1(DataFrame(g.summer_list_excl_tropical, g.tropical_list,
                       g.unique_years), "done", "plotdata")
    /\ UNCHANGED <<files, stdout, harness>>

NextDriver ==
    \/ ReadMax
    \/ ReadMin
    \/ HighestTemp
    \/ HighestFriendly
    \/ LowestTemp
    \/ LowestFriendly
    \/ PrintHighest
    \/ PrintLowest
    \/ LongestFreezing
    \/ FriendlyLastDay
    \/ PrintFreezing
    \/ SummerDays
    \/ TropicalDays
    \/ BuildLists
    \/ Subtract
    \/ UniqueYears
    \/ Plot

SpecDriver == InitDriver /\ [][NextDriver]_vars

\* ============================================================ properties
Indices == 1..Len(in_temps)

YearOf(date) == Slice(date, 0, 4)

\* ---- get_highest_temp / get_lowest_temp

\* C1: for a non-empty series get_highest_temp returns (dates[k], temperatures[k])
\* where temperatures[k] is the maximum and k is the smallest index holding it.
Thm_C1 ==
    (called = "get_highest_temp" /\ in_temps # <<>>) =>
        /\ ret.exc = "none"
        /\ \E k \in Indices :
              /\ \A j \in Indices : in_temps[j] <= in_temps[k]
              /\ \A j \in 1..(k - 1) : in_temps[j] < in_temps[k]
              /\ ret.val = <<in_dates[k], in_temps[k]>>

\* The maximum occurs twice, on different dates, and the first one is returned.
Wit_C1 ==
    /\ called = "get_highest_temp"
    /\ \E j, k \in Indices :
          /\ j < k
          /\ in_temps[j] = in_temps[k]
          /\ in_dates[j] # in_dates[k]
          /\ \A i \in Indices : in_temps[i] <= in_temps[k]
          /\ \A i \in 1..(j - 1) : in_temps[i] < in_temps[j]
          /\ ret.val = <<in_dates[j], in_temps[j]>>

\* C2: for a non-empty series get_lowest_temp returns (dates[k], temperatures[k])
\* where temperatures[k] is the minimum and k is the smallest index holding it.
Thm_C2 ==
    (called = "get_lowest_temp" /\ in_temps # <<>>) =>
        /\ ret.exc = "none"
        /\ \E k \in Indices :
              /\ \A j \in Indices : in_temps[j] >= in_temps[k]
              /\ \A j \in 1..(k - 1) : in_temps[j] > in_temps[k]
              /\ ret.val = <<in_dates[k], in_temps[k]>>

\* The minimum occurs twice, on different dates, and the first one is returned.
Wit_C2 ==
    /\ called = "get_lowest_temp"
    /\ \E j, k \in Indices :
          /\ j < k
          /\ in_temps[j] = in_temps[k]
          /\ in_dates[j] # in_dates[k]
          /\ \A i \in Indices : in_temps[i] >= in_temps[k]
          /\ \A i \in 1..(j - 1) : in_temps[i] > in_temps[j]
          /\ ret.val = <<in_dates[j], in_temps[j]>>

\* ---- get_longest_freezing
IsFreezing(i) == in_temps[i] < 0

\* The maximal runs of consecutive freezing days, as (first, last) index.
Runs ==
    {r \in Indices \X Indices :
        /\ r[1] <= r[2]
        /\ \A i \in r[1]..r[2] : IsFreezing(i)
        /\ (r[1] = 1 \/ ~IsFreezing(r[1] - 1))
        /\ (r[2] = Len(in_temps) \/ ~IsFreezing(r[2] + 1))}

\* The runs that a non-freezing day ended.
BrokenRuns == {r \in Runs : r[2] < Len(in_temps)}

RunLen(r) == r[2] - r[1] + 1

MaxRunLen(R) ==
    IF R = {} THEN 0
    ELSE CHOOSE m \in {RunLen(r) : r \in R} : \A r \in R : RunLen(r) <= m

\* The earliest of the longest runs of R.
FirstLongest(R) ==
    CHOOSE r \in R : /\ RunLen(r) = MaxRunLen(R)
                     /\ \A q \in R : RunLen(q) = MaxRunLen(R) => r[1] <= q[1]

LongestOf(R) ==
    IF R = {} THEN <<0, <<>>>>
    ELSE <<MaxRunLen(R), in_dates[FirstLongest(R)[2]]>>

\* C3 as stated: get_longest_freezing returns the length of the longest run
\* of consecutive days below zero and the date on which that run ended, the
\* earliest one among equally long runs.
Orig_C3 ==
    called = "get_longest_freezing" => ret = Return(LongestOf(Runs))

\* C3 as amended: get_longest_freezing returns the length and the end date of
\* the longest run of consecutive days below zero among the runs that a
\* non-freezing day ended (the earliest one among equally long runs), and
\* (0, '') when there is no such run.
Thm_C3 ==
    called = "get_longest_freezing" => ret = Return(LongestOf(BrokenRuns))

\* Two ended runs of the same, longest, length end on different dates and
\* the first one's end date is returned.
Wit_C3 ==
    /\ called = "get_longest_freezing"
    /\ \E r, q \in BrokenRuns :
          /\ r[1] < q[1]
          /\ RunLen(r) = MaxRunLen(BrokenRuns)
          /\ RunLen(q) = MaxRunLen(BrokenRuns)
          /\ in_dates[r[2]] # in_dates[q[2]]
          /\ ret.val = <<RunLen(r), in_dates[r[2]]>>

\* Number of freezing days at the end of the series.
TrailingLen ==
    IF \E r \in Runs : r[2] = Len(in_temps)
    THEN RunLen(CHOOSE r \in Runs : r[2] = Len(in_temps))
    ELSE 0

\* C4: a freezing run still in progress at the last record never updates the
\* record: an all-freezing series gives (0, ''), and a series gives the same
\* result as the series without its trailing freezing run.
Thm_C4 ==
    called = "get_longest_freezing" =>
        /\ (\A i \in Indices : IsFreezing(i)) => ret = Return(<<0, <<>>>>)
        /\ ret = get_longest_freezing(
                     SubSeq(in_dates, 1, Len(in_dates) - TrailingLen),
                     SubSeq(in_temps, 1, Len(in_temps) - TrailingLen))

\* The series ends in a freezing run that is longer than every ended run,
\* and the result is still the longest ended run.
Wit_C4 ==
    /\ called = "get_longest_freezing"
    /\ BrokenRuns # {}
    /\ TrailingLen > MaxRunLen(BrokenRuns)
    /\ ret.val = LongestOf(BrokenRuns)

\* ---- get_days_higher_per_year
ThresholdOf ==
    IF called = "get_summer_days_per_year" THEN 25
    ELSE IF called = "get_tropical_days_per_year" THEN 30
    ELSE in_min_temp

YearsOfInput == {YearOf(in_dates[i]) : i \in 1..Len(in_dates)}

\* C5: get_days_higher_per_year returns a mapping whose keys are exactly the
\* years occurring in dates and whose value for a year is the number of
\* days of that year with temperature >= threshold (0 when there is none).
Thm_C5 ==
    called \in {"get_days_higher_per_year", "get_summer_days_per_year",
                "get_tropical_days_per_year"} =>
        /\ ret.exc = "none"
        /\ DOMAIN ret.val.val = YearsOfInput
        /\ SeqToSet(ret.val.keys) = YearsOfInput
        /\ Len(ret.val.keys) = Cardinality(YearsOfInput)
        /\ \A y \in YearsOfInput :
              ret.val.val[y] =
                  Cardinality({i \in Indices : /\ YearOf(in_dates[i]) = y
                                               /\ in_temps[i] >= 10 * ThresholdOf})

\* One year has no qualifying day and is present with 0; another year has
\* two, one of them exactly at the threshold.
Wit_C5 ==
    /\ called = "get_days_higher_per_year"
    /\ in_min_temp = 25
    /\ \E i \in Indices : in_temps[i] = 250
    /\ \E y, z \in YearsOfInput : ret.val.val[y] = 0 /\ ret.val.val[z] = 2

\* ---- get_unique_years

\* C6: get_unique_years returns a list without duplicates, in strictly
\* ascending order, whose elements are exactly the 4-character prefixes of
\* the input dates, whatever the order of the input.
Thm_C6 ==
    called = "get_unique_years" =>
        /\ ret.exc = "none"
        /\ \A k \in 1..(Len(ret.val) - 1) : StrLess(ret.val[k], ret.val[k + 1])
        /\ \A j, k \in 1..Len(ret.val) : j # k => ret.val[j] # ret.val[k]
        /\ SeqToSet(ret.val) = YearsOfInput

\* The input starts with the later year, repeats a year, and the result
\* holds both years.
Wit_C6 ==
    /\ called = "get_unique_years"
    /\ Len(in_dates) >= 3
    /\ StrLess(YearOf(in_dates[2]), YearOf(in_dates[1]))
    /\ Len(ret.val) = 2
    /\ StrLess(ret.val[1], ret.val[2])

\* ---- read_data
IsHeader(raw) == startswith(strip(rstrip_nl(raw)), STAID)

\* 1-based number of the first header line, 0 when there is none.
HeaderIndex ==
    IF \E h \in 1..Len(in_lines) : IsHeader(in_lines[h])
    THEN CHOOSE h \in 1..Len(in_lines) :
            /\ IsHeader(in_lines[h])
            /\ \A j \in 1..(h - 1) : ~IsHeader(in_lines[j])
    ELSE 0

\* Numbers of the lines after the header.
DataLineNumbers ==
    IF HeaderIndex = 0 THEN {} ELSE (HeaderIndex + 1)..Len(in_lines)

DateField(raw) == Slice(rstrip_nl(raw), 14, 22)

TempField(raw) == Slice(rstrip_nl(raw), 23, 28)

\* C7: read_data returns one (date, temperature) pair per line after the
\* first header line, in file order; lines up to and including the header
\* give nothing, both lists have equal length, and without a header both
\* are empty.
Thm_C7 ==
    called = "read_data" =>
        /\ (\A j \in DataLineNumbers : int(TempField(in_lines[j])).exc = "none")
              => ret.exc = "none"
        /\ ret.exc = "none" =>
              /\ Len(ret.val[1]) = Cardinality(DataLineNumbers)
              /\ Len(ret.val[2]) = Len(ret.val[1])
              /\ \A k \in 1..Len(ret.val[1]) :
                    /\ ret.val[1][k] = DateField(in_lines[HeaderIndex + k])
                    /\ ret.val[2][k] = int(TempField(in_lines[HeaderIndex + k])).val
              /\ HeaderIndex = 0 => ret.val = <<(<<>>), (<<>>)>>

\* A preamble line, the header and two records: two pairs are returned.
Wit_C7 ==
    /\ called = "read_data"
    /\ HeaderIndex = 2
    /\ Len(in_lines) = 4
    /\ ret.exc = "none"
    /\ ret.val[1] = <<DateField(in_lines[3]), DateField(in_lines[4])>>
    /\ Len(ret.val[2]) = 2

\* C8: every line after the header that is shorter than 28 characters makes
\* read_data end in an error; such a line never yields a record.
Orig_C8 ==
    called = "read_data" =>
        \A j \in DataLineNumbers :
            Len(rstrip_nl(in_lines[j])) < 28 => ret.exc # "none"

\* ---- the report driver

\* C9: get_highest_temp and get_lowest_temp on an empty series end in an
\* explicit empty-series error, not in an out-of-bounds access, and the
\* report run stops there without having printed a line.
Orig_C9 ==
    (pc \in {"highest", "lowest"} /\ exc # "none") =>
        /\ exc # "IndexError"
        /\ stdout = <<>>

====
